---- MODULE Spec2Model ----
(***************************************************************************)
(* Model of the two REPL variants of the chat client, src/openai-cli.py    *)
(* (readline, multi-line capture) and src/openai_cli.py (prompt_toolkit,   *)
(* external editor, heading colours), and of the Conversation class they   *)
(* share.                                                                  *)
(*                                                                         *)
(* The program is followed from one wait to the next: for a line at the    *)
(* prompt, for a line of a multi-line capture, for the editor, for the     *)
(* service to answer, for the next event of a streamed answer.  What main  *)
(* does between two waits (taking the query, the dispatch, the first lines *)
(* of ask) is one step.                                                    *)
(*                                                                         *)
(* A text is a sequence of one-character strings, so that join, rstrip,    *)
(* startswith and endswith are computed as Python computes them.  Python's *)
(* None and False are the one-element sequences <<"None">> and <<"False">>,*)
(* which no text equals because a text holds single characters only.       *)
(***************************************************************************)
EXTENDS Naturals, Sequences, FiniteSets

\* ------------------------------------------------------------------ bounds
\* events the service delivers in one run, over all its streamed responses
MaxEvents == 2
\* requests issued in one run
MaxAsk == 2
\* lines typed in one run, over all its multi-line captures
MaxLines == 2

\* ------------------------------------------------------------------- texts
None == <<"None">>
False == <<"False">>
EMPTY == << >>
NL == "\n"

EXIT == <<"e", "x", "i", "t">>
EXIT_P == <<"e", "x", "i", "t", "(", ")">>
RESET_Q == <<"r", "e", "s", "e", "t">>
RESET_P == <<"r", "e", "s", "e", "t", "(", ")">>
MULTI == <<"m", "u", "l", "t", "i">>
MULTI_P == <<"m", "u", "l", "t", "i", "(", ")">>
M == <<"m">>
HI == <<"h", "i">>

\* the reserved tokens of the specification's section 6
ReservedTokens == {EXIT, EXIT_P, RESET_Q, RESET_P, MULTI, MULTI_P, M}

\* what the user may type on one line, or give on the command line
TypedInputs == ReservedTokens \cup {EMPTY, HI}

\* the lines of a multi-line capture: what may be typed after the lines read
\* so far
CaptureLines(read) == IF read = << >> THEN {EXIT} ELSE {HI}

\* what the scratch file may hold when the editor exits
EditorContents ==
  { <<NL>>, HI \o <<NL>>, EXIT \o <<NL>>, RESET_Q, M \o <<NL, NL>> }

\* delta.content of one streamed event: absent, empty, the start of a line,
\* or a whole line
Chunks == { None, EMPTY, <<"#">>, <<"#", NL>> }

\* message.content of a non-streamed response
Contents == { EMPTY, <<"a">>, <<"#", NL>> }

FinishReasons == { "stop", "length", "content_filter" }

\* the exit status of the editor process
ReturnCodes == {0, 1}

\* what a caller other than main may pass to ask
CallerContents == { HI, EXIT }

OPENAI_DASH == "openai-cli.py"
OPENAI_UNDER == "openai_cli.py"
API == "Conversation"

WHITE == "WHITE"
MAGENTA == "MAGENTA"

\* --------------------------------------------------------- pure functions
Last(s) == s[Len(s)]
Front(s) == SubSeq(s, 1, Len(s) - 1)

\* sep.join(parts): "\n".join(lines), line 93; ''.join(collected), line 73
RECURSIVE join(_, _)
join(sep, parts) ==
  IF parts = << >> THEN << >>
  ELSE IF Len(parts) = 1 THEN parts[1]
  ELSE parts[1] \o sep \o join(sep, Tail(parts))

\* content.rstrip('\n'), line 107
RECURSIVE rstrip_nl(_)
rstrip_nl(s) ==
  IF s # << >> /\ Last(s) = NL THEN rstrip_nl(Front(s)) ELSE s

\* msg.startswith('#'), line 199
startswith_hash(msg) == Len(msg) > 0 /\ msg[1] = "#"

\* msg.endswith('\n'), line 202
endswith_nl(msg) == Len(msg) > 0 /\ Last(msg) = NL

\* truth value of initial_query, lines 118 / 178
truthy(q) == q \notin {EMPTY, None, False}

user_message(content) == [role |-> "user", content |-> content]
assistant_message(content) == [role |-> "assistant", content |-> content]

\* ------------------------------------------------------------------- state
VARIABLES
  variant,             \* which program runs: a REPL variant, or a bare Conversation
  terminate,           \* args.terminate
  initial_query,       \* main's initial_query
  multi_mode,          \* main's multi_mode (openai-cli.py)
  query,               \* main's query
  pc,                  \* where the program is
  lines,               \* get_multi_input's lines
  tmp_exists,          \* whether open_editor_with_content's scratch file exists
  messages,            \* conversation.messages
  stream,              \* conversation.stream
  message,             \* ask's message
  req_messages,        \* ask's messages, the payload of the request
  collected_messages,  \* ask's collected_messages
  finish_reason,       \* ask's finish_reason
  arrived,             \* delta.content of the events received in this exchange
  produced,            \* what ask has yielded to its caller in this exchange
  requests,            \* how many times the service was called
  n_events,            \* how many events the service has delivered
  n_lines,             \* how many lines the multi-line captures have read
  reset_pending,       \* conversation was made by a reset and has not asked yet
  color,               \* main's color (openai_cli.py)
  newline,             \* main's newline (openai_cli.py)
  term,                \* what the loop body has printed in this exchange
  error                \* the exception that left ask, if any

main_vars == <<variant, terminate, initial_query, multi_mode, query, lines, tmp_exists>>
count_vars == <<requests, n_events, n_lines>>
conv_vars == <<messages, stream>>
ask_vars == <<message, req_messages, collected_messages, finish_reason, arrived, produced>>
render_vars == <<color, newline, term>>
vars == <<variant, terminate, initial_query, multi_mode, query, pc, lines,
          tmp_exists, messages, stream, message, req_messages,
          collected_messages, finish_reason, arrived, produced, requests, n_events,
          n_lines, reset_pending, color, newline, term, error>>

\* ask's message and finish_reason while they are not bound
NoMessage == [role |-> "none", content |-> << >>]
NoReason == "none"

NoError == << >>
TransportError == <<"TransportError">>
EOFError == <<"EOFError">>
EditorError == <<"CalledProcessError">>
NotFoundError == <<"FileNotFoundError">>
DecodeError == <<"UnicodeDecodeError">>
\* Exception(f'Unexpected finish reason: {finish_reason}'), lines 82 / 75
finish_error(reason) == <<"Unexpected finish reason: ", reason>>

\* the positions inside the try block of main, lines 176-214 / 116-154
Running ==
  {"top", "multi_flag", "multi_cmd", "editor", "create", "stream", "body", "after"}
\* the positions at which a generator made by ask is suspended or running
InFlight == {"create", "stream", "body", "resume"}

\* -------------------------------------------------------------- Conversation
\* Conversation.__init__: self.messages = [], lines 49 / 42
Conversation_messages == << >>
\* Conversation.__init__: stream=True by default, lines 48 / 41
Conversation_stream == TRUE

\* the slip of appending the user message to self.messages before the call
ask_entry_appends(self_messages, msg) == self_messages \o <<msg>>

\* ask, lines 55-56 / 48-49: the request list is a new list, self.messages
\* is left as it is
ask_entry_messages(self_messages, msg) == self_messages
request_messages(self_messages, msg) == self_messages \o <<msg>>

\* if chunk_message is not None, lines 69 / 62
chunk_has_content(chunk_message) == chunk_message # None

\* the slip of keeping only the last fragment as the reply
response_last(collected) ==
  IF collected = << >> THEN << >> ELSE collected[Len(collected)]

\* ''.join(collected_messages), lines 73 / 66
response_content(collected) == join(<< >>, collected)

\* the slip of extending with the reply first
extend_swapped(self_messages, msg, response_message) ==
  self_messages \o <<response_message, msg>>

\* the slip of extending with the reply only
extend_reply_only(self_messages, msg, response_message) ==
  self_messages \o <<response_message>>

\* self.messages.extend([message, response_message]), lines 75, 85 / 68, 78
extend_pair(self_messages, msg, response_message) ==
  self_messages \o <<msg, response_message>>

\* the slip of taking every finish reason as normal
finish_any(reason) == TRUE

\* if finish_reason != 'stop': raise, lines 81 / 74
finish_ok(reason) == reason = "stop"

\* the process is over: nothing of main's and ask's frames is left; the
\* session's messages stay as they were last
process_ends(how, exception) ==
  /\ pc' = how
  /\ error' = exception
  /\ message' = NoMessage
  /\ req_messages' = << >>
  /\ collected_messages' = << >>
  /\ finish_reason' = NoReason
  /\ arrived' = << >>
  /\ produced' = << >>
  /\ term' = << >>
  /\ color' = WHITE
  /\ newline' = TRUE
  /\ UNCHANGED <<conv_vars, count_vars, reset_pending>>

\* an exception leaves ask: main has no handler for it and the process ends
\* with a traceback; a bare caller receives it
ask_raises(exception, reason) ==
  IF variant = API
    THEN /\ pc' = "raised"
         /\ error' = exception
         /\ finish_reason' = reason
         /\ UNCHANGED <<conv_vars, message, req_messages, collected_messages,
                        arrived, produced, render_vars, count_vars, reset_pending>>
    ELSE process_ends("crashed", exception)

\* the generator runs from its first next() to the call of create
ask_start(content) ==
  LET msg == user_message(content) IN
  /\ message' = msg
  /\ req_messages' = request_messages(messages, msg)
  /\ messages' = ask_entry_messages(messages, msg)
  /\ requests' = requests + 1
  /\ UNCHANGED <<n_events, n_lines>>
  /\ reset_pending' = FALSE
  /\ collected_messages' = << >>
  /\ finish_reason' = NoReason
  /\ arrived' = << >>
  /\ produced' = << >>
  /\ error' = NoError
  /\ pc' = "create"
  /\ UNCHANGED stream

\* client.chat.completions.create raises
create_fails ==
  /\ pc = "create"
  /\ ask_raises(TransportError, finish_reason)
  /\ UNCHANGED main_vars

\* create returns the event stream; the generator enters `for chunk in response`
create_returns_stream ==
  /\ pc = "create"
  /\ stream
  /\ pc' = "stream"
  /\ UNCHANGED <<main_vars, conv_vars, ask_vars, render_vars, count_vars, reset_pending, error>>

\* one event arrives: lines 67-71 / 60-64
stream_chunk(chunk_message) ==
  /\ pc = "stream"
  /\ n_events < MaxEvents
  /\ n_events' = n_events + 1
  /\ arrived' = Append(arrived, chunk_message)
  /\ IF chunk_has_content(chunk_message)
       THEN /\ collected_messages' = Append(collected_messages, chunk_message)
            /\ produced' = Append(produced, chunk_message)
            /\ pc' = "body"
       ELSE /\ UNCHANGED <<collected_messages, produced, pc>>
  /\ UNCHANGED <<main_vars, conv_vars, message, req_messages, finish_reason,
                 render_vars, requests, n_lines, reset_pending, error>>

\* the transport fails while the events are consumed
stream_fails ==
  /\ pc = "stream"
  /\ ask_raises(TransportError, finish_reason)
  /\ UNCHANGED main_vars

\* the event stream ends: lines 73-75 / 66-68, and the generator returns
stream_ends ==
  /\ pc = "stream"
  /\ messages' = extend_pair(messages, message,
                             assistant_message(response_content(collected_messages)))
  /\ pc' = "after"
  /\ UNCHANGED <<main_vars, stream, ask_vars, render_vars, count_vars, reset_pending, error>>

\* the non-streamed response arrives: lines 77-84 / 70-77
nonstream_response(content, reason) ==
  /\ pc = "create"
  /\ ~stream
  /\ IF finish_ok(reason)
       THEN /\ arrived' = <<content>>
            /\ finish_reason' = reason
            /\ produced' = Append(produced, content)
            /\ pc' = "body"
            /\ UNCHANGED <<conv_vars, message, req_messages, collected_messages,
                           render_vars, count_vars, reset_pending, error>>
       ELSE ask_raises(finish_error(reason), reason)
  /\ UNCHANGED main_vars

\* the generator is resumed after its only yield: lines 85 / 78, and returns
nonstream_resume ==
  /\ pc = "resume"
  /\ messages' = extend_pair(messages, message, assistant_message(Last(arrived)))
  /\ pc' = "after"
  /\ UNCHANGED <<main_vars, stream, ask_vars, render_vars, count_vars, reset_pending, error>>

\* ---------------------------------------------------------------------- main
\* the slip of a dispatch without the test for the empty query
is_empty_never(q) == FALSE

\* the dispatch of main, lines 186-194 / 134-145
is_empty(q) == q = EMPTY
is_exit(q) == q \in {EXIT, EXIT_P}
is_reset(q) == q \in {RESET_Q, RESET_P}
\* only openai-cli.py has the multi command, line 144
is_multi(q) == variant = OPENAI_DASH /\ q \in {MULTI, MULTI_P, M}

\* the slip of a reset that clears nothing
reset_keeps_messages(old_messages) == old_messages

\* conversation = Conversation(model=model), lines 193 / 141: the messages of
\* the new object, whatever the old one held
reset_messages(old_messages) == Conversation_messages

\* the slip of leaving initial_query as it is once used
kept_initial_query == initial_query

\* what initial_query is set to once used: None, line 182; False, line 123
used_initial_query == IF variant = OPENAI_UNDER THEN None ELSE False

\* lines 196-198 / 147-148: the loop over conversation.ask(query) starts
main_call(q) ==
  /\ requests < MaxAsk
  /\ color' = WHITE
  /\ newline' = TRUE
  /\ term' = << >>
  /\ ask_start(q)

\* lines 186-198 / 134-148: what main does with the query of this turn, up
\* to its next wait
main_dispatch(q) ==
  /\ query' = q
  /\ lines' = << >>
  /\ IF is_empty(q) THEN
       \* continue, lines 187 / 135
       /\ pc' = "top"
       /\ UNCHANGED <<conv_vars, ask_vars, render_vars, count_vars, reset_pending, error>>
     ELSE IF is_exit(q) THEN
       \* break, lines 190 / 138
       /\ process_ends("exited", NoError)
     ELSE IF is_reset(q) THEN
       \* conversation = Conversation(model=model); continue, lines 193 / 141
       /\ messages' = reset_messages(messages)
       /\ stream' = Conversation_stream
       /\ reset_pending' = TRUE
       /\ pc' = "top"
       /\ UNCHANGED <<ask_vars, render_vars, count_vars, error>>
     ELSE IF is_multi(q) THEN
       \* query = get_multi_input(), line 145 of openai-cli.py, entered: lines 81-84
       /\ pc' = "multi_cmd"
       /\ UNCHANGED <<conv_vars, ask_vars, render_vars, count_vars, reset_pending, error>>
     ELSE
       main_call(q)

\* the slip of leaving the flag set after the capture
multi_mode_kept == TRUE

\* multi_mode = False, lines 124 and 128 of openai-cli.py
multi_mode_used == FALSE

\* lines 178-182 / 118-124: the first iteration takes the command-line query
main_initial_query ==
  /\ pc = "top"
  /\ truthy(initial_query)
  /\ initial_query' = used_initial_query
  /\ multi_mode' = (IF variant = OPENAI_DASH THEN multi_mode_used ELSE multi_mode)
  /\ main_dispatch(initial_query)
  /\ UNCHANGED <<variant, terminate, tmp_exists>>

\* lines 126-127 of openai-cli.py: get_multi_input is entered, lines 81-84
main_multi_flag ==
  /\ pc = "top"
  /\ ~truthy(initial_query)
  /\ multi_mode
  /\ lines' = << >>
  /\ pc' = "multi_flag"
  /\ UNCHANGED <<variant, terminate, initial_query, multi_mode, query, tmp_exists,
                 conv_vars, ask_vars, render_vars, count_vars, reset_pending, error>>

\* get_multi_input, lines 88-89: one more line is read
get_multi_input_line(line) ==
  /\ pc \in {"multi_flag", "multi_cmd"}
  /\ n_lines < MaxLines
  /\ n_lines' = n_lines + 1
  /\ lines' = Append(lines, line)
  /\ UNCHANGED <<variant, terminate, initial_query, multi_mode, query, pc,
                 tmp_exists, conv_vars, ask_vars, render_vars, requests, n_events,
                 reset_pending, error>>

\* get_multi_input, lines 90-94: end of input; back in main at lines 127-128,
\* from where the query goes through the dispatch
get_multi_input_flag_eof ==
  /\ pc = "multi_flag"
  /\ multi_mode' = multi_mode_used
  /\ main_dispatch(join(<<NL>>, lines))
  /\ UNCHANGED <<variant, terminate, initial_query, tmp_exists>>

\* get_multi_input, lines 90-94: end of input; back in main at line 145,
\* from where the query goes to ask at line 148
get_multi_input_cmd_eof ==
  /\ pc = "multi_cmd"
  /\ query' = join(<<NL>>, lines)
  /\ lines' = << >>
  /\ main_call(join(<<NL>>, lines))
  /\ UNCHANGED <<variant, terminate, initial_query, multi_mode, tmp_exists>>

\* lines 184 / 132: one line is read at the prompt
main_read_line(input) ==
  /\ pc = "top"
  /\ ~truthy(initial_query)
  /\ ~multi_mode
  /\ main_dispatch(input)
  /\ UNCHANGED <<variant, terminate, initial_query, multi_mode, tmp_exists>>

\* end of input at the prompt: input and session.prompt raise EOFError, which
\* main does not handle
main_read_eof ==
  /\ pc = "top"
  /\ ~truthy(initial_query)
  /\ ~multi_mode
  /\ process_ends("crashed", EOFError)
  /\ UNCHANGED main_vars

\* Control-T at the prompt of openai_cli.py, lines 124-131, and lines 90-100
\* of open_editor_with_content: the scratch file is made, the editor runs
get_input_ctrl_t ==
  /\ pc = "top"
  /\ variant = OPENAI_UNDER
  /\ ~truthy(initial_query)
  /\ tmp_exists' = TRUE
  /\ pc' = "editor"
  /\ UNCHANGED <<variant, terminate, initial_query, multi_mode, query, lines,
                 conv_vars, ask_vars, render_vars, count_vars, reset_pending, error>>

\* the slip of running the editor without check=True
check_ignored(returncode) == FALSE

\* subprocess.run([editor, tmp_path], check=True), line 100: a status other
\* than 0 raises CalledProcessError
run_raises(returncode) == returncode # 0

\* os.unlink(tmp_path) in the finally clause, lines 110-112
os_unlink(exists) == FALSE

\* lines 103-109, then the finally clause, then lines 134-140 and 156: the
\* result is the query of this turn
open_editor_returns(content) ==
  /\ pc = "editor"
  /\ tmp_exists' = os_unlink(tmp_exists)
  /\ main_dispatch(rstrip_nl(content))
  /\ UNCHANGED <<variant, terminate, initial_query, multi_mode>>

\* an exception inside the try block of lines 95-109: the finally clause
\* runs, and the exception goes on through the key binding and out of main
open_editor_raises(exception) ==
  /\ pc = "editor"
  /\ tmp_exists' = os_unlink(tmp_exists)
  /\ process_ends("crashed", exception)
  /\ UNCHANGED <<variant, terminate, initial_query, multi_mode, query, lines>>

\* the editor process exits, line 100, with the scratch file left readable
open_editor_exits(returncode, content) ==
  IF run_raises(returncode)
    THEN open_editor_raises(EditorError)
    ELSE open_editor_returns(content)

\* the editor command cannot be started: subprocess.run raises, line 100
open_editor_not_started == open_editor_raises(NotFoundError)

\* the scratch file cannot be read back: open or read raises, lines 103-104
open_editor_unreadable == open_editor_raises(DecodeError)

\* the colour a fragment is written in, lines 199-204 of openai_cli.py;
\* openai-cli.py writes everything in white, line 147
body_color(c, nl, msg) ==
  IF variant # OPENAI_UNDER THEN WHITE
  ELSE IF endswith_nl(msg) THEN WHITE
  ELSE IF nl /\ startswith_hash(msg) THEN MAGENTA
  ELSE c

\* lines 202-206 of openai_cli.py
body_newline(nl, msg) ==
  IF variant # OPENAI_UNDER THEN nl ELSE endswith_nl(msg)

\* print(msg, end=''), lines 209 / 149
written(c, msg) == [color |-> c, text |-> msg]

\* the loop body for the fragment just yielded: lines 199-209 / 149
main_body ==
  /\ pc = "body"
  /\ color' = body_color(color, newline, Last(produced))
  /\ newline' = body_newline(newline, Last(produced))
  /\ term' = Append(term, written(body_color(color, newline, Last(produced)),
                                  Last(produced)))
  /\ pc' = "stream"
  /\ UNCHANGED <<main_vars, conv_vars, ask_vars, count_vars, reset_pending, error>>

\* the slip of a loop that does not look at the terminate flag
loop_never_ends(flag) == FALSE

\* if terminate: break, lines 213-214 / 153-154
loop_ends(flag) == flag

\* the loop is over: lines 210-214 / 150-154
main_after ==
  /\ pc = "after"
  /\ IF loop_ends(terminate)
       THEN process_ends("exited", NoError)
       ELSE /\ pc' = "top"
            /\ message' = NoMessage
            /\ req_messages' = << >>
            /\ collected_messages' = << >>
            /\ finish_reason' = NoReason
            /\ arrived' = << >>
            /\ produced' = << >>
            /\ term' = << >>
            /\ UNCHANGED <<conv_vars, color, newline, count_vars, reset_pending, error>>
  /\ UNCHANGED main_vars

\* KeyboardInterrupt at any wait of the try block: lines 216-217 / 156-157; a
\* suspended generator is dropped, an open editor call runs its finally clause
main_interrupt ==
  /\ pc \in Running
  /\ tmp_exists' = FALSE
  /\ lines' = << >>
  /\ query' = None
  /\ process_ends("interrupted", NoError)
  /\ UNCHANGED <<variant, terminate, initial_query, multi_mode>>

\* main, lines 166-174 / 105-114
Init ==
  /\ variant \in {OPENAI_DASH, OPENAI_UNDER}
  /\ terminate \in BOOLEAN
  /\ initial_query \in TypedInputs
  /\ multi_mode \in (IF variant = OPENAI_DASH THEN BOOLEAN ELSE {FALSE})
  /\ query = None
  /\ pc = "top"
  /\ lines = << >>
  /\ tmp_exists = FALSE
  /\ messages = Conversation_messages
  /\ stream = TRUE
  /\ message = NoMessage
  /\ req_messages = << >>
  /\ collected_messages = << >>
  /\ finish_reason = NoReason
  /\ arrived = << >>
  /\ produced = << >>
  /\ requests = 0
  /\ n_events = 0
  /\ n_lines = 0
  /\ reset_pending = FALSE
  /\ color = WHITE
  /\ newline = TRUE
  /\ term = << >>
  /\ error = NoError

Next ==
  \/ main_initial_query
  \/ main_multi_flag
  \/ \E line \in CaptureLines(lines) : get_multi_input_line(line)
  \/ get_multi_input_flag_eof
  \/ get_multi_input_cmd_eof
  \/ \E input \in TypedInputs : main_read_line(input)
  \/ main_read_eof
  \/ get_input_ctrl_t
  \/ \E returncode \in ReturnCodes, content \in EditorContents :
       open_editor_exits(returncode, content)
  \/ open_editor_not_started
  \/ open_editor_unreadable
  \/ create_fails
  \/ create_returns_stream
  \/ \E chunk_message \in Chunks : stream_chunk(chunk_message)
  \/ stream_fails
  \/ stream_ends
  \/ main_body
  \/ main_after
  \/ main_interrupt

Spec == Init /\ [][Next]_vars

\* ------------------------------------------- Conversation without the REPL
\* A caller other than main makes a Conversation, streaming or not
\* (lines 48 / 41), and consumes ask with a for loop, any number of times.

\* for msg in conversation.ask(content): the generator is started
caller_asks(content) ==
  /\ pc = "caller"
  /\ requests < MaxAsk
  /\ ask_start(content)
  /\ UNCHANGED <<main_vars, render_vars>>

\* the caller's loop body has the fragment; the generator is resumed
caller_body ==
  /\ pc = "body"
  /\ pc' = (IF stream THEN "stream" ELSE "resume")
  /\ UNCHANGED <<main_vars, conv_vars, ask_vars, render_vars, count_vars,
                 reset_pending, error>>

\* the loop is over, or the exception is handled: the generator is gone
caller_continues ==
  /\ pc \in {"after", "raised"}
  /\ pc' = "caller"
  /\ message' = NoMessage
  /\ req_messages' = << >>
  /\ collected_messages' = << >>
  /\ finish_reason' = NoReason
  /\ arrived' = << >>
  /\ produced' = << >>
  /\ error' = NoError
  /\ UNCHANGED <<main_vars, conv_vars, render_vars, count_vars, reset_pending>>

ConvInit ==
  /\ variant = API
  /\ terminate = FALSE
  /\ initial_query = EMPTY
  /\ multi_mode = FALSE
  /\ query = None
  /\ pc = "caller"
  /\ lines = << >>
  /\ tmp_exists = FALSE
  /\ messages = Conversation_messages
  /\ stream \in BOOLEAN
  /\ message = NoMessage
  /\ req_messages = << >>
  /\ collected_messages = << >>
  /\ finish_reason = NoReason
  /\ arrived = << >>
  /\ produced = << >>
  /\ requests = 0
  /\ n_events = 0
  /\ n_lines = 0
  /\ reset_pending = FALSE
  /\ color = WHITE
  /\ newline = TRUE
  /\ term = << >>
  /\ error = NoError

ConvNext ==
  \/ \E content \in CallerContents : caller_asks(content)
  \/ create_fails
  \/ create_returns_stream
  \/ \E chunk_message \in Chunks : stream_chunk(chunk_message)
  \/ stream_fails
  \/ stream_ends
  \/ \E content \in Contents, reason \in FinishReasons :
       nonstream_response(content, reason)
  \/ nonstream_resume
  \/ caller_body
  \/ caller_continues

ConvSpec == ConvInit /\ [][ConvNext]_vars

\* ===================================================================== claims
\* the concatenation of a sequence of texts, in order
RECURSIVE Concat(_)
Concat(texts) ==
  IF texts = << >> THEN << >> ELSE texts[1] \o Concat(Tail(texts))

\* ask has issued its request and has not yet returned
AskRunning == pc \in InFlight

\* C1: an exchange that is consumed to its end leaves the messages as they
\* were before it, followed by the user message with the submitted content
\* and then the assistant message with the full reply; and as long as ask
\* has not returned, the messages are what they were before the exchange.
C1_PairAfterLastFragment ==
  /\ AskRunning => req_messages = messages \o <<message>>
  /\ pc = "after" =>
       /\ Len(messages) = Len(req_messages) + 1
       /\ SubSeq(messages, 1, Len(messages) - 2) = Front(req_messages)
       /\ messages[Len(messages) - 1] = message
       /\ message.role = "user"
       /\ Last(messages) = assistant_message(Concat(produced))

\* a streamed exchange of two different fragments is over, after an earlier one
C1_Witness ==
  /\ pc = "after"
  /\ stream
  /\ Len(messages) = 4
  /\ Len(produced) = 2
  /\ produced[1] # produced[2]

\* C2: when the remote call fails, at the request or while the events are
\* consumed, the messages are what they were before the exchange, and the
\* failure is with the caller of ask.
C2_FailureLeavesMessages ==
  /\ (pc = "raised" /\ error = TransportError) =>
       /\ messages = Front(req_messages)
       /\ Last(req_messages) = message
  /\ (AskRunning \/ pc \in {"after", "caller"}) => error = NoError

\* the transport has failed after a fragment was produced, in a second exchange
C2_Witness ==
  /\ pc = "raised"
  /\ error = TransportError
  /\ Len(produced) >= 1
  /\ Len(messages) = 2

\* C6: without streaming, a finish reason other than "stop" makes ask fail
\* with an error naming the reason, with no fragment produced and nothing
\* appended; only "stop" has the content produced as one fragment and the
\* pair appended.
C6_FinishReason ==
  (~stream /\ finish_reason # NoReason) =>
    IF finish_reason = "stop"
      THEN /\ pc \in {"body", "resume", "after"}
           /\ error = NoError
           /\ produced = arrived
           /\ Len(produced) = 1
           /\ pc = "after" =>
                messages = req_messages \o <<assistant_message(produced[1])>>
           /\ pc # "after" => messages = Front(req_messages)
      ELSE /\ pc = "raised"
           /\ error = finish_error(finish_reason)
           /\ produced = << >>
           /\ messages = Front(req_messages)

\* the second response of a non-streaming conversation ends with "length"
C6_Witness ==
  /\ ~stream
  /\ pc = "raised"
  /\ finish_reason = "length"
  /\ error = <<"Unexpected finish reason: ", "length">>
  /\ Len(messages) = 2

\* the text written to the terminal by the loop body, without the colours
Displayed == Concat([i \in DOMAIN term |-> term[i].text])

\* the contents of the events that carry one, in arrival order
RECURSIVE Present(_)
Present(events) ==
  IF events = << >> THEN << >>
  ELSE IF events[1] = None THEN Present(Tail(events))
  ELSE <<events[1]>> \o Present(Tail(events))

\* C3: in a streamed exchange the fragments produced are the contents of
\* the events that carry one, in arrival order; what the loop body has
\* written is their concatenation so far; and once the exchange is over the
\* stored assistant message is the concatenation of them all.
C3_FragmentsInOrder ==
  (stream /\ pc \in {"stream", "body", "after"}) =>
    /\ produced = Present(arrived)
    /\ pc \in {"stream", "after"} => Displayed = Concat(produced)
    /\ pc = "body" => Displayed = Concat(Front(produced))
    /\ pc = "after" => Last(messages) = assistant_message(Concat(Present(arrived)))

\* "#" and then a line have arrived, were written and are stored
C3_Witness ==
  /\ pc = "after"
  /\ arrived = << <<"#">>, <<"#", NL>> >>
  /\ Displayed = <<"#", "#", NL>>
  /\ Last(messages).content = <<"#", "#", NL>>

\* the turn of a query equal to reset or reset(): typed at the prompt, given
\* on the command line, left in the editor, or captured under the multi flag
ResetTurn ==
  \/ \E q \in {RESET_Q, RESET_P} : main_read_line(q)
  \/ initial_query \in {RESET_Q, RESET_P} /\ main_initial_query
  \/ \E content \in EditorContents :
       rstrip_nl(content) \in {RESET_Q, RESET_P} /\ open_editor_returns(content)
  \/ (pc = "multi_flag" /\ join(<<NL>>, lines) \in {RESET_Q, RESET_P}
        /\ get_multi_input_flag_eof)

\* C4: the turn of a reset leaves the messages empty and sends no request,
\* the messages stay empty until the next request, and that request's
\* payload is the new user message alone.
C4_ResetIsolation ==
  [][ /\ ResetTurn =>
           (messages' = << >> /\ requests' = requests /\ pc' = "top" /\ reset_pending')
      /\ reset_pending => messages = << >>
      /\ (reset_pending /\ requests' = requests + 1) =>
           (req_messages' = <<user_message(query')>> /\ pc' = "create")
    ]_vars

\* a request goes out with one message, after an exchange and a reset
C4_Witness ==
  /\ pc = "create"
  /\ requests = 2
  /\ req_messages = <<user_message(HI)>>
  /\ messages = << >>

\* C5: a query equal to a reserved token is never the content ask is called
\* with, in either variant and for every way the query was acquired.
C5_ReservedNeverAsked ==
  message # NoMessage => message.content \notin ReservedTokens

\* the turn of an empty query: typed at the prompt, left in the editor, or
\* captured under the multi flag
EmptyTurn ==
  \/ main_read_line(EMPTY)
  \/ \E content \in EditorContents :
       rstrip_nl(content) = EMPTY /\ open_editor_returns(content)
  \/ (pc = "multi_flag" /\ join(<<NL>>, lines) = EMPTY /\ get_multi_input_flag_eof)

\* C7: the turn of an empty query sends no request, leaves the messages as
\* they are and goes back to the prompt, whatever the terminate flag is.
C7_EmptyIsNoop ==
  [][ EmptyTurn =>
        (requests' = requests /\ messages' = messages /\ pc' = "top" /\ error' = error)
    ]_vars

\* with the terminate flag set, an empty query was read and the prompt is back
C7_Witness ==
  /\ terminate
  /\ pc = "top"
  /\ query = EMPTY
  /\ requests = 0

\* C8: the messages are always a sequence of pairs, a user message and then
\* an assistant message.
C8_Pairs ==
  /\ Len(messages) % 2 = 0
  /\ \A i \in DOMAIN messages :
       messages[i].role = (IF i % 2 = 1 THEN "user" ELSE "assistant")

\* two exchanges are stored
C8_Witness ==
  /\ Len(messages) = 4
  /\ pc = "top"

\* C9: an interrupt at any wait ends the process without an error, and the
\* messages are then what they were before the exchange in flight, if any.
C9_InterruptLeavesNoTrace ==
  [][ main_interrupt =>
        /\ pc' = "interrupted"
        /\ error' = NoError
        /\ messages' = (IF pc \in {"create", "stream", "body"}
                          THEN Front(req_messages) ELSE messages)
    ]_vars

\* the first exchange was interrupted after an event had arrived
C9_Witness ==
  /\ pc = "interrupted"
  /\ requests = 1
  /\ n_events >= 1
  /\ ~reset_pending
  /\ messages = << >>

\* C10: in a streamed exchange an event that carries no text is skipped:
\* every fragment ask produces is a non-empty text.
C10_FragmentsNonEmpty ==
  stream => \A i \in DOMAIN produced : produced[i] \notin {None, EMPTY}

\* C11: in both variants and for every way the query is acquired, ask is
\* never called with the empty string, so no request carries an empty new
\* user message.
C11_NeverAskedEmpty ==
  /\ message # NoMessage => message.content # EMPTY
  /\ req_messages # << >> => Last(req_messages).content # EMPTY

\* C12: a failure of the remote call, at the request or while the events
\* are consumed, issues no second request for the query, aborts the exchange
\* only, and leaves the loop at the next prompt with the session as it was.
C12_FailureContinuesLoop ==
  [][ (create_fails \/ stream_fails) =>
        /\ requests' = requests
        /\ messages' = messages
        /\ pc' = "top"
    ]_vars

\* a call of open_editor_with_content is over: the editor has exited with
\* either status, could not be started, or left a file that cannot be read
EditorCallOver ==
  \/ \E returncode \in ReturnCodes, content \in EditorContents :
       open_editor_exits(returncode, content)
  \/ open_editor_not_started
  \/ open_editor_unreadable

\* C13: however a call of open_editor_with_content ends, the scratch file
\* does not exist afterwards, and it exists at no time outside such a call;
\* an editor that exits with a status other than zero makes the call fail:
\* no content becomes the query and the failure goes on to the caller.
C13_ScratchFileRemoved ==
  [][ /\ EditorCallOver => ~tmp_exists'
      /\ tmp_exists' => pc' = "editor"
      /\ \A content \in EditorContents :
           open_editor_exits(1, content) =>
             /\ error' = EditorError
             /\ pc' = "crashed"
             /\ query' = query
             /\ requests' = requests
    ]_vars

\* after an exchange, the editor was opened and has exited with status 1
C13_Witness ==
  /\ pc = "crashed"
  /\ error = EditorError
  /\ ~tmp_exists
  /\ Len(messages) = 2

\* C14: with the terminate flag set, at most one request is sent in the whole
\* run and the loop ends as soon as the first exchange is over; the turn of
\* an empty query or of a reset sends nothing and leaves the loop running.
C14_TerminateSingleShot ==
  [][ terminate =>
        /\ requests' <= 1
        /\ main_after => (pc' = "exited" /\ requests = 1 /\ error' = NoError)
        /\ (EmptyTurn \/ ResetTurn) => (pc' = "top" /\ requests' = requests)
    ]_vars

\* with the terminate flag set, the one exchange is stored and the loop is over
C14_Witness ==
  /\ terminate
  /\ pc = "exited"
  /\ requests = 1
  /\ Len(messages) = 2
  /\ error = NoError

\* whether the i-th fragment written starts a fresh display line: the first
\* of a reply, or the one after a fragment that ended with a line break
FreshLine(i) == i = 1 \/ endswith_nl(term[i - 1].text)

\* whether the i-th fragment written belongs to a heading: from a fragment
\* that starts a fresh line with "#" up to and including the fragment that
\* ends with a line break
RECURSIVE InHeading(_)
InHeading(i) ==
  \/ FreshLine(i) /\ startswith_hash(term[i].text)
  \/ i > 1 /\ ~endswith_nl(term[i - 1].text) /\ InHeading(i - 1)

\* C15: in openai_cli.py every fragment of a heading, the one that ends with
\* the line break included, is written in the heading colour, and every
\* other fragment in the body colour.
C15_HeadingColour ==
  variant = OPENAI_UNDER =>
    \A i \in DOMAIN term :
      term[i].color = (IF InHeading(i) THEN MAGENTA ELSE WHITE)

\* the texts of a capture, each after the first preceded by a line break,
\* one after the other in the order they were read
JoinedInOrder(read) ==
  Concat([i \in DOMAIN read |-> IF i = 1 THEN read[i] ELSE <<NL>> \o read[i]])

\* a multi-line capture ends at the end-of-input signal
CaptureOver == get_multi_input_flag_eof \/ get_multi_input_cmd_eof

\* C16 as stated: the multi flag is used up by one multi-line capture, and
\* by nothing else.
C16_FlagAlwaysCaptures ==
  [][ (multi_mode /\ ~multi_mode') => (pc = "multi_flag" /\ CaptureOver) ]_vars

\* C16, amended: in openai-cli.py a capture is entered only under the multi
\* flag, when no command-line query takes the first turn, or by a multi
\* command; the flag is used up by that capture or by the command-line query
\* and is never set again; the end-of-input signal ends the capture without
\* an error and without ending the loop, unless the text captured under the
\* flag is an exit command; the query is then the captured lines in input
\* order with a line break between them; and the loop is not left in
\* multi-line mode.
C16_MultiOneTurn ==
  [][ /\ (multi_mode /\ ~multi_mode') =>
           \/ pc = "multi_flag" /\ CaptureOver
           \/ truthy(initial_query) /\ main_initial_query
      /\ ~multi_mode => ~multi_mode'
      /\ pc \in {"multi_flag", "multi_cmd"} => variant = OPENAI_DASH
      /\ (pc' = "multi_flag" /\ pc # "multi_flag") =>
           (pc = "top" /\ multi_mode /\ ~truthy(initial_query))
      /\ (pc' = "multi_cmd" /\ pc # "multi_cmd") =>
           (pc = "top" /\ query' \in {MULTI, MULTI_P, M})
      /\ CaptureOver =>
           /\ query' = JoinedInOrder(lines)
           /\ ~multi_mode'
           /\ error' = NoError
           /\ pc' \in {"top", "create", "exited"}
           /\ pc' = "exited" => (pc = "multi_flag" /\ is_exit(query'))
    ]_vars

\* the exchange of a two-line capture is over and the single-line prompt is back
C16_Witness ==
  /\ variant = OPENAI_DASH
  /\ pc = "top"
  /\ ~multi_mode
  /\ query = <<"e", "x", "i", "t", NL, "h", "i">>
  /\ Len(messages) = 2
  /\ messages[1].content = query

\* C17: a command-line query is taken in the first iteration only, before
\* anything was read or sent; it is dispatched as a typed query is (exit ends
\* the loop, reset sends nothing, and what is sent is the query itself); and
\* once taken it is never taken again, so every later query is read from
\* the terminal.
C17_InitialQueryOnce ==
  [][ /\ truthy(initial_query) =>
           /\ pc \in {"top", "interrupted"}
           /\ requests = 0
           /\ query = None
           /\ messages = << >>
      /\ main_initial_query =>
           /\ query' = initial_query
           /\ ~truthy(initial_query')
           /\ is_exit(initial_query) => pc' = "exited"
           /\ is_reset(initial_query) => (pc' = "top" /\ requests' = requests)
           /\ requests' = requests + 1 => message'.content = initial_query
      /\ ~truthy(initial_query) => ~truthy(initial_query')
    ]_vars

\* the command-line query was answered and a typed query is now being sent
C17_Witness ==
  /\ initial_query \in {None, False}
  /\ requests = 2
  /\ pc = "create"
  /\ Len(messages) = 2
  /\ query = message.content

====
